---- MODULE Spec2Model ----
(***************************************************************************)
(* Model of the aseprite-factory job orchestration layer (run.py) and of   *)
(* the Stable Diffusion pipeline that re-enters it (sd_pipeline.py).       *)
(*                                                                         *)
(* Text values that the code inspects character by character (job_id,      *)
(* output_basename, the ASEPRITE_EXE override) are sequences of            *)
(* one-character strings.  Paths are sequences of strings.                 *)
(***************************************************************************)
EXTENDS Integers, Sequences, FiniteSets, TLC

\* ----------------------------------------------------------------- bounds
MaxIdLen == 2      \* longest job_id text fed to the validator
MaxNameLen == 2    \* longest output_basename text fed to the validator
MaxExit == 2       \* largest exit code the external editor returns
MaxSeed == 1       \* largest seed the generation service reports

\* ------------------------------------------------------ text helper values
LF == "\n"

Lower == {"a","b","c","d","e","f","g","h","i","j","k","l","m",
          "n","o","p","q","r","s","t","u","v","w","x","y","z"}
Upper == {"A","B","C","D","E","F","G","H","I","J","K","L","M",
          "N","O","P","Q","R","S","T","U","V","W","X","Y","Z"}
Digit == {"0","1","2","3","4","5","6","7","8","9"}

\* All texts over an alphabet, up to a length.
StrsUpTo(alphabet, n) == UNION {[1..k -> alphabet] : k \in 0..n}

\* ------------------------------------------------------------ run.py:16-17
SUPPORTED_TASKS == {"sprite_placeholder", "tileset_placeholder"}

\* The character class [A-Za-z0-9_-] of JOB_ID_PATTERN.
JOB_ID_CLASS == Lower \cup Upper \cup Digit \cup {"_", "-"}

\* re.compile(r"^[A-Za-z0-9_-]+$").match(s): one or more class characters
\* from the start, then "$", which Python matches at the end of the text
\* and also just before a newline that is the text's last character.
JOB_ID_PATTERN_match(s) ==
    \E n \in 1..Len(s) :
        /\ \A i \in 1..n : s[i] \in JOB_ID_CLASS
        /\ \/ n = Len(s)
           \/ n = Len(s) - 1 /\ s[Len(s)] = LF

\* ------------------------------------------------- pathlib (POSIX flavour)
\* s.split(sep): the pieces between separators, empty pieces included.
RECURSIVE SplitOn(_, _)
SplitOn(s, sep) ==
    IF s = <<>> THEN << <<>> >>
    ELSE LET rest == SplitOn(Tail(s), sep)
         IN  IF Head(s) = sep
             THEN << <<>> >> \o rest
             ELSE << <<Head(s)>> \o Head(rest) >> \o Tail(rest)

IsRealPart(p) == p # <<>> /\ p # <<".">>

\* Path(text).name on the POSIX flavour: "/" is the only separator, empty
\* and "." components are dropped, the name is the last component left
\* ("" when none is left).
PathName(s) ==
    LET parts == SelectSeq(SplitOn(s, "/"), IsRealPart)
    IN  IF parts = <<>> THEN <<>> ELSE parts[Len(parts)]

\* ------------------------------------------------- decoded JSON job values
Str(v) == [type |-> "str", val |-> v]
NotStr == [type |-> "int", val |-> <<>>]     \* a JSON value that is no string
Absent == [type |-> "none", val |-> <<>>]    \* key missing: dict.get -> None
TaskStr(t) == [type |-> "str", val |-> t]
TaskNotStr == [type |-> "int", val |-> ""]
TaskAbsent == [type |-> "none", val |-> ""]

NoParams == "<absent>"
EmptyParams == "{}"
SomeParams == "{tile_width: 16}"

Dict(i, t, o, p) ==
    [kind |-> "dict", job_id |-> i, task |-> t, output_basename |-> o, params |-> p]
NotADict == [kind |-> "list", job_id |-> Absent, task |-> TaskAbsent,
             output_basename |-> Absent, params |-> NoParams]

\* ---------------------------------------------------------- run.py:81-107
NoJob == [job_id |-> <<>>, task |-> "", output_basename |-> <<>>, params |-> NoParams]
Rejected(message) == [ok |-> FALSE, err |-> message, job |-> NoJob]
Accepted(j) == [ok |-> TRUE, err |-> "", job |-> j]

ERR_NOT_OBJECT == "Job spec must be a JSON object."
ERR_JOB_ID_REQUIRED == "job_id is required and must be a string."
ERR_JOB_ID_CHARS == "job_id must contain only letters, numbers, underscore, or dash."
ERR_TASK == "task must be one of ['sprite_placeholder', 'tileset_placeholder']."
ERR_BASENAME_REQUIRED == "output_basename is required and must be a string."
ERR_BASENAME_DIRS == "output_basename must be a file basename without directories."

validate_job(job) ==
    IF job.kind # "dict" THEN Rejected(ERR_NOT_OBJECT)
    ELSE IF job.job_id.type # "str" \/ job.job_id.val = <<>>
         THEN Rejected(ERR_JOB_ID_REQUIRED)
    ELSE IF ~JOB_ID_PATTERN_match(job.job_id.val)
         THEN Rejected(ERR_JOB_ID_CHARS)
    ELSE IF job.task.type # "str" \/ job.task.val \notin SUPPORTED_TASKS
         THEN Rejected(ERR_TASK)
    ELSE IF job.output_basename.type # "str" \/ job.output_basename.val = <<>>
         THEN Rejected(ERR_BASENAME_REQUIRED)
    ELSE IF PathName(job.output_basename.val) # job.output_basename.val
         THEN Rejected(ERR_BASENAME_DIRS)
    ELSE Accepted([job_id |-> job.job_id.val,
                   task |-> job.task.val,
                   output_basename |-> job.output_basename.val,
                   params |-> IF job.params = NoParams THEN EmptyParams
                              ELSE job.params])

\* ------------------------------------------------------------ run.py:12-14
REPO_ROOT == <<"/", "repo">>
ARTIFACTS_DIR == REPO_ROOT \o <<"/", "artifacts">>
LUA_DIR == REPO_ROOT \o <<"/", "lua">>

\* ARTIFACTS_DIR / str(job["job_id"])
JobDir(root, job_id) == root \o <<"/">> \o job_id

\* -------------------------------------------------------- error messages
\* A message is the sequence of the pieces the f-string is made of.
IsInfix(piece, text) ==
    \E i \in 0..(Len(text) - Len(piece)) : SubSeq(text, i + 1, i + Len(piece)) = piece

MSG_WSLPATH_NOT_FOUND == <<"wslpath not found; ensure this runs inside WSL.">>
\* exc.stderr.strip() is whatever the utility printed: an opaque text.
MSG_WSLPATH_FAILED == <<"wslpath failed: ", "<stderr of wslpath>">>
MSG_OVERRIDE_NOT_FOUND(env_path) == <<"ASEPRITE_EXE not found at ">> \o env_path \o <<".">>
MSG_NOT_FOUND ==
    <<"Aseprite executable not found. Set ", "ASEPRITE_EXE",
      " to the Windows path (e.g. C:\\Program Files\\Aseprite\\aseprite.exe) or a WSL path.">>
MSG_UNSUPPORTED(task) == <<"Unsupported task: ", task>>
MSG_EXITED(exit_code) ==
    <<"Aseprite exited with code ", ToString(exit_code), ". See ", "logs.txt", " for details.">>
MSG_SPEC_NOT_FOUND == <<"Job spec not found at ", "<job_spec_path>">>

\* ---------------------------------------------------------- run.py:24-45
\* host.installed: the wslpath utility is on PATH; host.rejects: the argument
\* lists for which the utility exits non-zero.  The utility's output is an
\* uninterpreted path: the text "wslpath" applied to the arguments.
run_wslpath(args, host) ==
    IF ~host.installed
    THEN [ok |-> FALSE, out |-> <<>>, err |-> MSG_WSLPATH_NOT_FOUND, args |-> args]
    ELSE IF args \in host.rejects
    THEN [ok |-> FALSE, out |-> <<>>, err |-> MSG_WSLPATH_FAILED, args |-> args]
    ELSE [ok |-> TRUE, out |-> <<"wslpath">> \o args, err |-> <<>>, args |-> args]

to_windows_path(path, host) == run_wslpath(<<"-w">> \o path, host)

to_wsl_path(path, host) == run_wslpath(<<"-u">> \o path, host)

\* ---------------------------------------------------------- run.py:48-78
candidates == << <<"C", ":\\Program Files\\Aseprite\\aseprite.exe">>,
                 <<"C", ":\\Program Files (x86)\\Aseprite\\aseprite.exe">> >>

Located(wsl, win, calls, probed) ==
    [ok |-> TRUE, wsl |-> wsl, win |-> win, err |-> <<>>, calls |-> calls, probed |-> probed]
NotLocated(err, calls, probed) ==
    [ok |-> FALSE, wsl |-> <<>>, win |-> <<>>, err |-> err, calls |-> calls, probed |-> probed]

\* The loop over the well-known locations (lines 67-73): a location whose
\* conversion fails is skipped; calls and probed record what was attempted.
RECURSIVE ProbeCandidates(_, _, _, _)
ProbeCandidates(cands, host, calls, probed) ==
    IF cands = <<>> THEN NotLocated(MSG_NOT_FOUND, calls, probed)
    ELSE LET candidate == Head(cands)
             conv == to_wsl_path(candidate, host)
         IN  IF ~conv.ok
             THEN ProbeCandidates(Tail(cands), host, Append(calls, conv),
                                  Append(probed, candidate))
             ELSE IF conv.out \in host.files
             THEN Located(conv.out, candidate, Append(calls, conv),
                          Append(probed, candidate))
             ELSE ProbeCandidates(Tail(cands), host, Append(calls, conv),
                                  Append(probed, candidate))

\* The override branch (lines 50-61).
LocateOverride(env_path, host) ==
    IF Head(env_path) = "/"
    THEN IF env_path \notin host.files
         THEN NotLocated(MSG_OVERRIDE_NOT_FOUND(env_path), <<>>, <<>>)
         ELSE LET conv == to_windows_path(env_path, host)
              IN  IF ~conv.ok THEN NotLocated(conv.err, <<conv>>, <<>>)
                  ELSE Located(env_path, conv.out, <<conv>>, <<>>)
    ELSE LET conv == to_wsl_path(env_path, host)
         IN  IF ~conv.ok THEN NotLocated(conv.err, <<conv>>, <<>>)
             ELSE IF conv.out \notin host.files
             THEN NotLocated(MSG_OVERRIDE_NOT_FOUND(env_path), <<conv>>, <<>>)
             ELSE Located(conv.out, env_path, <<conv>>, <<>>)

\* Variant: a failed override falls back to the well-known locations.
find_aseprite_executable_Fallback(env, host) ==
    IF env.set /\ env.val # <<>> /\ LocateOverride(env.val, host).ok
    THEN LocateOverride(env.val, host)
    ELSE ProbeCandidates(candidates, host, <<>>, <<>>)

\* env is os.environ's entry for ASEPRITE_EXE: [set, val].  "if env_path:"
\* is false both for a missing variable (None) and for an empty value.
find_aseprite_executable(env, host) ==
    IF env.set /\ env.val # <<>>
    THEN LocateOverride(env.val, host)
    ELSE ProbeCandidates(candidates, host, <<>>, <<>>)

\* -------------------------------------------------------- run.py:110-170
CommandContext(job, artifacts_dir) == [job |-> job, artifacts_dir |-> artifacts_dir]

NoCommand == [class |-> "", context |-> CommandContext(NoJob, <<>>)]

lua_script(command) ==
    IF command.class = "SpritePlaceholderCommand"
    THEN LUA_DIR \o <<"/", "sprite_placeholder.lua">>
    ELSE LUA_DIR \o <<"/", "tileset_placeholder.lua">>

\* BaseCommand.script_params: the output directory converted for the editor
\* and the basename verbatim; fails when the conversion fails.
script_params(command, host) ==
    LET conv == to_windows_path(command.context.artifacts_dir, host)
    IN  [ok |-> conv.ok, err |-> conv.err, call |-> conv,
         params |-> << <<"output_dir", conv.out>>,
                       <<"output_basename", command.context.job.output_basename>> >>]

\* Variant: the payload's job is rebuilt with default params.
meta_payload_DefaultParams(command) ==
    [job |-> [command.context.job EXCEPT !.params = EmptyParams],
     tileset_size |-> <<128, 128>>,
     tile_size |-> <<16, 16>>,
     tiles |-> <<"grass", "stone", "wall", "dirt">>]

meta_payload(command) ==
    IF command.class = "SpritePlaceholderCommand"
    THEN [job |-> command.context.job,
          frame_count |-> 5,
          tags |-> [idle |-> [from |-> 1, to |-> 1], walk |-> [from |-> 2, to |-> 5]]]
    ELSE [job |-> command.context.job,
          tileset_size |-> <<128, 128>>,
          tile_size |-> <<16, 16>>,
          tiles |-> <<"grass", "stone", "wall", "dirt">>]

build_command(context) ==
    LET task == context.job.task
    IN  IF task = "sprite_placeholder"
        THEN [ok |-> TRUE, err |-> <<>>,
              command |-> [class |-> "SpritePlaceholderCommand", context |-> context]]
        ELSE IF task = "tileset_placeholder"
        THEN [ok |-> TRUE, err |-> <<>>,
              command |-> [class |-> "TilesetPlaceholderCommand", context |-> context]]
        ELSE [ok |-> FALSE, err |-> MSG_UNSUPPORTED(task), command |-> NoCommand]

\* -------------------------------------------------------- run.py:180-204
\* cmd = [executable, "-b", "--script", script_win_path] + the script
\* parameters; every argument is a sequence of text pieces.
EditorCmd(executable, script_win_path, params) ==
    << executable, <<"-b">>, <<"--script">>, script_win_path,
       <<"--script-param">>, <<params[1][1], "=">> \o params[1][2],
       <<"--script-param">>, <<params[2][1], "=">> \o params[2][2] >>

\* sep.join(items) for items that are sequences of text pieces.
RECURSIVE Join(_, _)
Join(items, sep) ==
    IF items = <<>> THEN <<>>
    ELSE IF Len(items) = 1 THEN Head(items)
    ELSE Head(items) \o <<sep>> \o Join(Tail(items), sep)

\* The text written to logs.txt (lines 194-203).
LogContents(cmd, stdout, stderr) ==
    Join(<< <<"Command:">>, Join(cmd, " "), <<>>, <<"--- stdout ---">>, <<stdout>>,
            <<"--- stderr ---">>, <<stderr>> >>, LF)

\* --------------------------------------------------- sd_pipeline.py:21-23
SD_ARTIFACTS_DIR == <<"/", "mnt/c/Users/hound/Pictures/Aseprite Factory">>
TEMP_DIR == SD_ARTIFACTS_DIR \o <<"/", "_sd_temp">>

\* datetime.now().strftime("%Y%m%d_%H%M%S") at some instant.
Timestamp == <<"2","0","2","6","0","1","0","2","_","0","3","0","4","0","5">>

MSG_SD_API == <<"SD API error: ", "<URLError>">>
MSG_NO_IMAGES == <<"No images returned from SD">>
MSG_FACTORY_FAILED(returncode) == <<"Factory job failed with code ", ToString(returncode)>>

\* ------------------------------------------------------------------ state
VARIABLES
    mode,              \* "direct": run.py from the shell; "pipeline": sd_pipeline.py
    flow,              \* the pipeline subcommand: "tileset" | "sprite" ("" when direct)
    job_id_arg,        \* --job-id of the pipeline (<<>> when not given)
    spec_file,         \* run.py's argument: "no_argument" | "missing" | "malformed" | "readable"
    job_data,          \* the decoded content of the job spec file
    env,               \* os.environ's ASEPRITE_EXE entry
    wslpath_installed, \* whether the conversion utility is on PATH
    host,              \* what the locator met on the host: the conversions the
                       \* utility rejects and the files that exist
    pc,                \* run.py's position in main
    job,               \* the validated JobSpec
    command,           \* the command object build_command returned
    exe_paths,         \* what find_aseprite_executable returned
    params,            \* what command.script_params() returned
    cmd,               \* the editor invocation
    editor,            \* "not_started" | "running" | "exited"
    exit_code,         \* the editor's return code
    output,            \* what the editor printed: <<stdout, stderr>>
    calls,             \* the wslpath invocations made so far, in order
    probed,            \* the well-known locations probed so far, in order
    fs,                \* the paths this execution created
    meta_json,         \* content of meta.json
    logs_txt,          \* content of logs.txt
    run,               \* the run.py process: status, exit status, exception, stderr line
    ppc,               \* sd_pipeline.py's position
    http_requested,    \* a request was sent to the generation service
    generation,        \* what generate_scene returned
    generation_info,   \* content of generation_info.json
    pipeline           \* the sd_pipeline.py process

vars == <<mode, flow, job_id_arg, spec_file, job_data, env, wslpath_installed, host, pc, job,
          command, exe_paths, params, cmd, editor, exit_code, output, calls, probed, fs,
          meta_json, logs_txt, run, ppc, http_requested, generation, generation_info,
          pipeline>>

inputs == <<mode, flow, job_id_arg, env, wslpath_installed>>
runState == <<host, pc, job, command, exe_paths, params, cmd, editor, exit_code, output, calls,
              probed, meta_json, logs_txt, run>>
pipeState == <<ppc, http_requested, generation, generation_info, pipeline>>

\* A process: not yet started, running, or exited with a status.  raised is
\* the class of the exception that ended it ("" for none), msg its message.
Idle == [status |-> "idle", code |-> 0, raised |-> "", msg |-> <<>>, stage |-> ""]
Running == [status |-> "running", code |-> 0, raised |-> "", msg |-> <<>>, stage |-> ""]
Exited(code, raised, msg, stage) ==
    [status |-> "exited", code |-> code, raised |-> raised, msg |-> msg, stage |-> stage]

\* run.py:239-244: a JobError is printed as one line and exits 1; any other
\* exception leaves through the interpreter (traceback, status 1).
Raise(raised, msg, stage) == Exited(1, raised, msg, stage)

Host(rejects, files) ==
    [installed |-> wslpath_installed, rejects |-> rejects, files |-> files]

NoLocation == NotLocated(<<>>, <<>>, <<>>)
NoScriptParams == [ok |-> FALSE, err |-> <<>>, call |-> <<>>, params |-> <<>>]
NoGeneration == [ok |-> FALSE, image |-> "", seed |-> ""]

ArtifactsOf(j) == JobDir(ARTIFACTS_DIR, j.job_id)
MetaPath(j) == ArtifactsOf(j) \o <<"/", "meta.json">>
LogPath(j) == ArtifactsOf(j) \o <<"/", "logs.txt">>

\* ----------------------------------------------------------------- inputs
EnvValues == { [set |-> FALSE, val |-> <<>>],
               [set |-> TRUE, val |-> <<>>],
               [set |-> TRUE, val |-> <<"/", "opt/aseprite/aseprite">>],
               [set |-> TRUE, val |-> <<"D", ":\\tools\\aseprite.exe">>] }

RunJobIds == {Str(<<"j", "1">>), Str(<<"j", LF>>), Str(<<"a", "/">>), Absent}
RunTasks == {TaskStr("sprite_placeholder"), TaskStr("tileset_placeholder"),
             TaskStr("unknown_task"), TaskNotStr}
RunBasenames == {Str(<<"s">>), Str(<<".", ".">>), Str(<<"a", "/", "b">>), NotStr}
RunParams == {NoParams, SomeParams}
RunJobs == {NotADict} \cup
           {Dict(i, t, o, p) : i \in RunJobIds, t \in RunTasks,
                               o \in RunBasenames, p \in RunParams}

PipelineJobIds == {<<>>, <<"j", "2">>, <<"a", " ">>}

\* What the editor prints: <<stdout, stderr>>.
EditorOutputs == {<<"saved", "">>, <<"", "script error">>}

InitRest ==
    /\ env \in EnvValues
    /\ wslpath_installed \in BOOLEAN
    /\ host = Host({}, {})
    /\ job = NoJob
    /\ command = NoCommand
    /\ exe_paths = NoLocation
    /\ params = NoScriptParams
    /\ cmd = <<>>
    /\ editor = "not_started"
    /\ exit_code = 0
    /\ output = <<"", "">>
    /\ calls = <<>>
    /\ probed = <<>>
    /\ fs = {}
    /\ meta_json = <<>>
    /\ logs_txt = <<>>
    /\ http_requested = FALSE
    /\ generation = NoGeneration
    /\ generation_info = <<>>

InitDirect ==
    /\ mode = "direct"
    /\ flow = ""
    /\ job_id_arg = <<>>
    /\ \/ spec_file \in {"no_argument", "missing", "malformed"} /\ job_data = NotADict
       \/ spec_file = "readable" /\ job_data \in RunJobs
    /\ pc = "start"
    /\ run = Running
    /\ ppc = "idle"
    /\ pipeline = Idle

InitPipeline ==
    /\ mode = "pipeline"
    /\ flow \in {"tileset", "sprite"}
    /\ job_id_arg \in PipelineJobIds
    /\ spec_file = "no_argument"
    /\ job_data = NotADict
    /\ pc = "idle"
    /\ run = Idle
    /\ ppc = "start"
    /\ pipeline = Running

Init == (InitDirect \/ InitPipeline) /\ InitRest

\* ------------------------------------------------------- run.py: main
\* run.py:208-217: parse the arguments, open and decode the job spec file.
ReadJobSpec ==
    /\ pc = "start"
    /\ IF spec_file = "no_argument"
       THEN /\ run' = Exited(2, "SystemExit", <<"usage: run.py [-h] job_spec">>, "arguments")
            /\ pc' = "exited"
       ELSE IF spec_file = "missing"
       THEN /\ run' = Raise("JobError", MSG_SPEC_NOT_FOUND, "job_spec")
            /\ pc' = "exited"
       ELSE IF spec_file = "malformed"
       THEN /\ run' = Raise("JSONDecodeError", <<"<json error>">>, "job_spec")
            /\ pc' = "exited"
       ELSE /\ pc' = "validate"
            /\ run' = run
    /\ UNCHANGED <<inputs, host, spec_file, job_data, job, command, exe_paths, params, cmd,
                   editor, exit_code, output, calls, probed, fs, meta_json, logs_txt, pipeState>>

\* Variant: the artifact directory is created from the raw job_id before the
\* job is validated.
Validate_MkdirFirst ==
    /\ pc = "validate"
    /\ fs' = fs \cup {JobDir(ARTIFACTS_DIR, job_data.job_id.val)}
    /\ LET v == validate_job(job_data)
       IN  IF v.ok
           THEN /\ job' = v.job
                /\ pc' = "mkdir"
                /\ run' = run
           ELSE /\ run' = Raise("JobError", <<v.err>>, "validation")
                /\ pc' = "exited"
                /\ job' = job
    /\ UNCHANGED <<inputs, host, spec_file, job_data, command, exe_paths, params, cmd, editor,
                   exit_code, output, calls, probed, meta_json, logs_txt, pipeState>>

\* run.py:219: job = validate_job(job_data)
Validate ==
    /\ pc = "validate"
    /\ LET v == validate_job(job_data)
       IN  IF v.ok
           THEN /\ job' = v.job
                /\ pc' = "mkdir"
                /\ run' = run
           ELSE /\ run' = Raise("JobError", <<v.err>>, "validation")
                /\ pc' = "exited"
                /\ job' = job
    /\ UNCHANGED <<inputs, host, spec_file, job_data, command, exe_paths, params, cmd, editor,
                   exit_code, output, calls, probed, fs, meta_json, logs_txt, pipeState>>

\* run.py:221-222: artifacts_dir.mkdir(parents=True, exist_ok=True)
MakeArtifactsDir ==
    /\ pc = "mkdir"
    /\ fs' = fs \cup {ArtifactsOf(job)}
    /\ pc' = "dispatch"
    /\ UNCHANGED <<inputs, host, spec_file, job_data, job, command, exe_paths, params, cmd,
                   editor, exit_code, output, calls, probed, meta_json, logs_txt, run, pipeState>>

\* run.py:224-225: command = build_command(context)
Dispatch ==
    /\ pc = "dispatch"
    /\ LET b == build_command(CommandContext(job, ArtifactsOf(job)))
       IN  IF b.ok
           THEN /\ command' = b.command
                /\ pc' = "meta"
                /\ run' = run
           ELSE /\ run' = Raise("JobError", b.err, "dispatch")
                /\ pc' = "exited"
                /\ command' = command
    /\ UNCHANGED <<inputs, host, spec_file, job_data, job, exe_paths, params, cmd, editor,
                   exit_code, output, calls, probed, fs, meta_json, logs_txt, pipeState>>

\* Variant: the metadata write is left for after the editor run.
WriteMeta_Deferred ==
    /\ pc = "meta"
    /\ pc' = "locate"
    /\ UNCHANGED <<inputs, host, spec_file, job_data, job, command, exe_paths, params, cmd,
                   editor, exit_code, output, calls, probed, fs, meta_json, logs_txt, run,
                   pipeState>>

\* run.py:227 and 173-177: write_meta_json(command.meta_payload(), artifacts_dir)
WriteMeta ==
    /\ pc = "meta"
    /\ fs' = fs \cup {MetaPath(job)}
    /\ meta_json' = meta_payload(command)
    /\ pc' = "locate"
    /\ UNCHANGED <<inputs, host, spec_file, job_data, job, command, exe_paths, params, cmd,
                   editor, exit_code, output, calls, probed, logs_txt, run, pipeState>>

\* What the locator can meet on the host: the conversion of the override
\* (in the direction its first character selects) and of each well-known
\* location may be rejected; the override's file and each location's file may
\* exist.  The utility rejects nothing when it is not installed at all.
OverrideArgs ==
    IF env.val = <<>> THEN {}
    ELSE IF Head(env.val) = "/" THEN {<<"-w">> \o env.val} ELSE {<<"-u">> \o env.val}
OverrideFiles ==
    IF env.val = <<>> THEN {}
    ELSE IF Head(env.val) = "/" THEN {env.val} ELSE {<<"wslpath", "-u">> \o env.val}
CandidateArgs == {<<"-u">> \o candidates[i] : i \in 1..Len(candidates)}
CandidateFiles == {<<"wslpath", "-u">> \o candidates[i] : i \in 1..Len(candidates)}
LocatorArgs == IF wslpath_installed THEN OverrideArgs \cup CandidateArgs ELSE {}
LocatorFiles == OverrideFiles \cup CandidateFiles

\* run.py:229: exe_paths = find_aseprite_executable()
LocateExecutable ==
    /\ pc = "locate"
    /\ \E rejects \in SUBSET LocatorArgs, files \in SUBSET LocatorFiles :
         LET found == find_aseprite_executable(env, Host(rejects, files))
         IN  /\ host' = Host(rejects, files)
             /\ exe_paths' = found
             /\ calls' = calls \o found.calls
             /\ probed' = probed \o found.probed
             /\ IF found.ok
                THEN pc' = "params" /\ run' = run
                ELSE pc' = "exited" /\ run' = Raise("JobError", found.err, "locate")
    /\ UNCHANGED <<inputs, spec_file, job_data, job, command, params, cmd, editor,
                   exit_code, output, fs, meta_json, logs_txt, pipeState>>

\* run.py:231, the argument command.script_params(): evaluated before
\* run_aseprite is entered.
ScriptParams ==
    /\ pc = "params"
    /\ \E rejected \in BOOLEAN :
         LET args == <<"-w">> \o command.context.artifacts_dir
             sp == script_params(command, Host(IF rejected THEN {args} ELSE {}, {}))
         IN  /\ params' = sp
             /\ calls' = Append(calls, sp.call)
             /\ IF sp.ok
                THEN pc' = "run" /\ run' = run
                ELSE pc' = "exited" /\ run' = Raise("JobError", sp.err, "script_params")
    /\ UNCHANGED <<inputs, host, spec_file, job_data, job, command, exe_paths, cmd, editor,
                   exit_code, output, probed, fs, meta_json, logs_txt, pipeState>>

\* Variant: a failed script-path conversion is swallowed and the editor is
\* started on the unconverted path.
StartEditor_FallbackPath ==
    /\ pc = "run"
    /\ \E rejected \in BOOLEAN :
         LET script == lua_script(command)
             conv == to_windows_path(script,
                         Host(IF rejected THEN {<<"-w">> \o script} ELSE {}, {}))
         IN  /\ calls' = Append(calls, conv)
             /\ cmd' = EditorCmd(exe_paths.wsl, IF conv.ok THEN conv.out ELSE script,
                                 params.params)
    /\ editor' = "running"
    /\ pc' = "editor"
    /\ UNCHANGED <<inputs, host, spec_file, job_data, job, command, exe_paths, params,
                   exit_code, output, probed, fs, meta_json, logs_txt, run, pipeState>>

\* run.py:181-192: run_aseprite converts the script path, builds cmd and
\* starts the editor; subprocess.run raises OSError when the file at the
\* located path cannot be executed.
StartEditor ==
    /\ pc = "run"
    /\ \E rejected \in BOOLEAN, spawned \in BOOLEAN :
         LET script == lua_script(command)
             conv == to_windows_path(script,
                         Host(IF rejected THEN {<<"-w">> \o script} ELSE {}, {}))
         IN  /\ calls' = Append(calls, conv)
             /\ IF ~conv.ok
                THEN /\ run' = Raise("JobError", conv.err, "script_path")
                     /\ pc' = "exited"
                     /\ UNCHANGED <<cmd, editor>>
                ELSE /\ cmd' = EditorCmd(exe_paths.wsl, conv.out, params.params)
                     /\ IF spawned
                        THEN /\ editor' = "running"
                             /\ pc' = "editor"
                             /\ run' = run
                        ELSE /\ editor' = editor
                             /\ pc' = "exited"
                             /\ run' = Raise("OSError", <<"<cannot execute>">>, "spawn")
    /\ UNCHANGED <<inputs, host, spec_file, job_data, job, command, exe_paths, params,
                   exit_code, output, probed, fs, meta_json, logs_txt, pipeState>>

\* Variant: subprocess.run(check=True): a non-zero return code raises before
\* the log is written.
FinishEditor_LogOnSuccessOnly ==
    /\ pc = "editor"
    /\ \E rc \in (-1)..MaxExit, printed \in EditorOutputs :
         /\ exit_code' = rc
         /\ output' = printed
         /\ IF rc = 0
            THEN /\ logs_txt' = LogContents(cmd, printed[1], printed[2])
                 /\ fs' = fs \cup {LogPath(job)}
            ELSE UNCHANGED <<logs_txt, fs>>
    /\ editor' = "exited"
    /\ pc' = "check"
    /\ UNCHANGED <<inputs, host, spec_file, job_data, job, command, exe_paths, params, cmd,
                   calls, probed, meta_json, run, pipeState>>

\* run.py:187-204: the editor ends with some return code and output; the
\* log is written and the return code handed back unmodified.
FinishEditor ==
    /\ pc = "editor"
    /\ \E rc \in (-1)..MaxExit, printed \in EditorOutputs :
         /\ exit_code' = rc
         /\ output' = printed
         /\ logs_txt' = LogContents(cmd, printed[1], printed[2])
    /\ editor' = "exited"
    /\ fs' = fs \cup {LogPath(job)}
    /\ pc' = "check"
    /\ UNCHANGED <<inputs, host, spec_file, job_data, job, command, exe_paths, params, cmd,
                   calls, probed, meta_json, run, pipeState>>

\* Variant: the return code is not examined.
CheckExit_AlwaysZero ==
    /\ pc = "check"
    /\ run' = Exited(0, "", <<>>, "")
    /\ pc' = "exited"
    /\ UNCHANGED <<inputs, host, spec_file, job_data, job, command, exe_paths, params, cmd,
                   editor, exit_code, output, calls, probed, fs, meta_json, logs_txt, pipeState>>

\* run.py:233-236
CheckExit ==
    /\ pc = "check"
    /\ run' = IF exit_code # 0
              THEN Raise("JobError", MSG_EXITED(exit_code), "editor")
              ELSE Exited(0, "", <<>>, "")
    /\ pc' = "exited"
    /\ UNCHANGED <<inputs, host, spec_file, job_data, job, command, exe_paths, params, cmd,
                   editor, exit_code, output, calls, probed, fs, meta_json, logs_txt, pipeState>>

\* ------------------------------------------------------- sd_pipeline.py
PipelineJobId ==
    IF job_id_arg # <<>> THEN job_id_arg
    ELSE IF flow = "tileset"
         THEN <<"s","d","_","t","i","l","e","s","e","t","_">> \o Timestamp
         ELSE <<"s","d","_","s","p","r","i","t","e","_">> \o Timestamp

TempImage == TEMP_DIR \o <<"/">> \o PipelineJobId \o <<"_source.png">>
SpecPath == TEMP_DIR \o <<"/">> \o PipelineJobId \o <<"_spec.json">>

\* sd_pipeline.py:154-165 and 226-237: the job spec the flow synthesizes.
PipelineJobSpec ==
    IF flow = "tileset"
    THEN Dict(Str(PipelineJobId), TaskStr("slice_tileset"),
              Str(<<"t","i","l","e","s","e","t">>), SomeParams)
    ELSE Dict(Str(PipelineJobId), TaskStr("process_sprite"),
              Str(<<"s","p","r","i","t","e">>), SomeParams)

\* sd_pipeline.py:132-137 (204-209): choose the job id, create the temp dir.
StartPipeline ==
    /\ ppc = "start"
    /\ fs' = fs \cup {TEMP_DIR}
    /\ ppc' = "generate"
    /\ UNCHANGED <<inputs, spec_file, job_data, runState, http_requested, generation,
                   generation_info, pipeline>>

\* sd_pipeline.py:140-145 with generate_scene (46-89) and sd_api (29-43).
GenerateScene ==
    /\ ppc = "generate"
    /\ http_requested' = TRUE
    /\ \E answer \in {"unreachable", "no_images", "image"},
          seed \in {ToString(n) : n \in 0..MaxSeed} \cup {"unknown"} :
         IF answer = "unreachable"
         THEN /\ pipeline' = Raise("RuntimeError", MSG_SD_API, "generate")
              /\ ppc' = "exited"
              /\ generation' = generation
         ELSE IF answer = "no_images"
         THEN /\ pipeline' = Raise("RuntimeError", MSG_NO_IMAGES, "generate")
              /\ ppc' = "exited"
              /\ generation' = generation
         ELSE /\ generation' = [ok |-> TRUE, image |-> "<png bytes>", seed |-> seed]
              /\ ppc' = "save"
              /\ pipeline' = pipeline
    /\ UNCHANGED <<inputs, spec_file, job_data, runState, fs, generation_info>>

\* sd_pipeline.py:148-151 (220-223)
SaveSource ==
    /\ ppc = "save"
    /\ fs' = fs \cup {TempImage}
    /\ ppc' = "factory"
    /\ UNCHANGED <<inputs, spec_file, job_data, runState, http_requested, generation,
                   generation_info, pipeline>>

\* sd_pipeline.py:154-167 and run_factory_job 94-107: write the job spec
\* file and start run.py on it as a child process.
LaunchFactory ==
    /\ ppc = "factory"
    /\ fs' = fs \cup {SpecPath}
    /\ spec_file' = "readable"
    /\ job_data' = PipelineJobSpec
    /\ pc' = "start"
    /\ run' = Running
    /\ ppc' = "waiting"
    /\ UNCHANGED <<inputs, host, job, command, exe_paths, params, cmd, editor, exit_code, output,
                   calls, probed, meta_json, logs_txt, http_requested, generation,
                   generation_info, pipeline>>

\* sd_pipeline.py:109-115 and 169-186 (241-258): once the child has exited,
\* fail on a non-zero status; otherwise copy the source image into
\* ARTIFACTS_DIR / job_id of this module and write generation_info.json.
FinishPipeline ==
    /\ ppc = "waiting"
    /\ run.status = "exited"
    /\ LET artifacts_dir == JobDir(SD_ARTIFACTS_DIR, PipelineJobId)
       IN  IF run.code # 0
           THEN /\ pipeline' = Raise("RuntimeError", MSG_FACTORY_FAILED(run.code), "factory")
                /\ UNCHANGED <<fs, generation_info>>
           ELSE IF artifacts_dir \notin fs
           THEN /\ pipeline' = Raise("FileNotFoundError", <<"<source.png>">>, "copy")
                /\ UNCHANGED <<fs, generation_info>>
           ELSE /\ fs' = fs \cup {artifacts_dir \o <<"/", "source.png">>,
                                 artifacts_dir \o <<"/", "generation_info.json">>}
                /\ generation_info' = [prompt |-> "<prompt>", seed |-> generation.seed]
                /\ pipeline' = Exited(0, "", <<>>, "")
    /\ ppc' = "exited"
    /\ UNCHANGED <<inputs, spec_file, job_data, runState, http_requested, generation>>

Next ==
    \/ ReadJobSpec
    \/ Validate
    \/ MakeArtifactsDir
    \/ Dispatch
    \/ WriteMeta
    \/ LocateExecutable
    \/ ScriptParams
    \/ StartEditor
    \/ FinishEditor
    \/ CheckExit
    \/ StartPipeline
    \/ GenerateScene
    \/ SaveSource
    \/ LaunchFactory
    \/ FinishPipeline

Spec == Init /\ [][Next]_vars

\* ------------------------------------------- the functions on their own
\* validate_job and build_command applied to arbitrary decoded input, as a
\* caller of the module (a test, another layer) can apply them.
IdAlphabet == {"a", "Z", "7", "_", "-", "/", " ", LF}
NameAlphabet == {"a", ".", "/", "\\"}
WideJobIds == {Str(t) : t \in StrsUpTo(IdAlphabet, MaxIdLen)} \cup {NotStr, Absent}
WideBasenames == {Str(t) : t \in StrsUpTo(NameAlphabet, MaxNameLen)} \cup {NotStr, Absent}
WideTasks == RunTasks \cup {TaskStr("slice_tileset"), TaskStr("process_sprite"), TaskAbsent}

FunctionInputs ==
    {NotADict} \cup
    {Dict(i, t, o, p) : i \in WideJobIds, t \in WideTasks,
                        o \in RunBasenames, p \in RunParams} \cup
    {Dict(i, t, o, p) : i \in RunJobIds, t \in WideTasks,
                        o \in WideBasenames, p \in RunParams}

InitFunctions ==
    /\ mode = "functions"
    /\ flow = ""
    /\ job_id_arg = <<>>
    /\ spec_file = "readable"
    /\ job_data \in FunctionInputs
    /\ pc = "call"
    /\ run = Running
    /\ ppc = "idle"
    /\ pipeline = Idle
    /\ InitRest
    /\ env = [set |-> FALSE, val |-> <<>>]
    /\ wslpath_installed

\* validate_job(job_data): the JobSpec returned, or the JobError raised.
CallValidateJob ==
    /\ pc = "call"
    /\ LET v == validate_job(job_data)
       IN  /\ job' = v.job
           /\ run' = IF v.ok THEN run ELSE Raise("JobError", <<v.err>>, "validation")
    /\ pc' = "validated"
    /\ UNCHANGED <<inputs, host, spec_file, job_data, command, exe_paths, params, cmd,
                   editor, exit_code, output, calls, probed, fs, meta_json, logs_txt, pipeState>>

\* The job mapping as decoded, for a caller that dispatches without validating.
RawJob(d) ==
    [job_id |-> d.job_id.val, task |-> d.task.val,
     output_basename |-> d.output_basename.val, params |-> d.params]

\* build_command(CommandContext(job, dir)) and command.meta_payload(), on the
\* validated JobSpec when there is one and on the decoded mapping otherwise.
CallBuildCommand ==
    /\ pc = "validated"
    /\ LET j == IF run.raised = "" THEN job ELSE RawJob(job_data)
           b == build_command(CommandContext(j, JobDir(ARTIFACTS_DIR, j.job_id)))
       IN  /\ command' = b.command
           /\ meta_json' = IF b.ok THEN meta_payload(b.command) ELSE meta_json
           /\ run' = IF b.ok THEN run ELSE Raise("JobError", b.err, "dispatch")
    /\ pc' = "dispatched"
    /\ UNCHANGED <<inputs, host, spec_file, job_data, job, exe_paths, params, cmd,
                   editor, exit_code, output, calls, probed, fs, logs_txt, pipeState>>

NextFunctions == CallValidateJob \/ CallBuildCommand

SpecFunctions == InitFunctions /\ [][NextFunctions]_vars

\* ================================================================ claims
UnderRunArtifacts(p) ==
    Len(p) >= Len(ARTIFACTS_DIR) /\ SubSeq(p, 1, Len(ARTIFACTS_DIR)) = ARTIFACTS_DIR

\* Anything run.py does beyond reading its input: a path under its artifacts
\* root, a command object, a path conversion, the editor.
RunSideEffect ==
    \/ \E p \in fs : UnderRunArtifacts(p)
    \/ command.class # ""
    \/ Len(calls) > 0
    \/ editor # "not_started"

PastValidation == pc \in {"mkdir", "dispatch", "meta", "locate", "params", "run", "editor", "check"}

\* C1: a job specification the validator rejects causes no side effect: no
\* artifact directory, no command, no metadata or log file, no path
\* conversion, no editor process; wherever one of these exists, or main is
\* past validation, the job specification passed validation.
C1_NoSideEffectUnlessValid ==
    /\ (RunSideEffect \/ PastValidation) => validate_job(job_data).ok
    /\ (pc = "exited" /\ run.stage = "validation") => ~RunSideEffect
    /\ (pc = "exited" /\ spec_file = "readable" /\ ~validate_job(job_data).ok)
           => run.stage = "validation" /\ run.code # 0

C1_UnknownTaskRejected ==
    /\ pc = "exited"
    /\ run.stage = "validation"
    /\ job_data.kind = "dict"
    /\ job_data.job_id = Str(<<"j", "1">>)
    /\ job_data.task = TaskStr("unknown_task")
    /\ fs = {}

\* C2: with a generation service that returns one image and a seed and an
\* editor that exits 0, the tile flow ends successfully with an artifact
\* directory holding meta.json, logs.txt, source.png and
\* generation_info.json, whose seed is the service's.  (The environment is
\* given every benefit: runs that fail at discovery, conversion or spawn are
\* left out, as are job ids the validator would refuse.)
HoldsTileArtifacts(dir) ==
    /\ dir \o <<"/", "meta.json">> \in fs
    /\ dir \o <<"/", "logs.txt">> \in fs
    /\ dir \o <<"/", "source.png">> \in fs
    /\ dir \o <<"/", "generation_info.json">> \in fs

C2_TileFlowSucceeds ==
    ( /\ mode = "pipeline"
      /\ flow = "tileset"
      /\ ppc = "exited"
      /\ generation.ok
      /\ generation.seed # "unknown"
      /\ JOB_ID_PATTERN_match(PipelineJobId)
      /\ run.stage \notin {"locate", "script_params", "script_path", "spawn"}
      /\ (editor = "exited" => exit_code = 0) )
    => /\ pipeline.code = 0
       /\ \/ HoldsTileArtifacts(JobDir(ARTIFACTS_DIR, PipelineJobId))
          \/ HoldsTileArtifacts(JobDir(SD_ARTIFACTS_DIR, PipelineJobId))
       /\ generation_info.seed = generation.seed

\* C3: once the editor has run to its end, logs.txt is in the job's artifact
\* directory and holds the invocation command line followed by the captured
\* stdout and then stderr; this is so before the exit code is examined, and a
\* run that fails on a non-zero exit code fails with a message that
\* references logs.txt.
CommandLineThenOutput(text) ==
    LET line == Join(cmd, " ")
    IN  \E i \in 1..(Len(text) - Len(line) + 1) :
            /\ SubSeq(text, i, i + Len(line) - 1) = line
            /\ \E j \in (i + Len(line) + 2)..Len(text) :
                   /\ text[j - 2] = "--- stdout ---" /\ text[j - 1] = LF
                   /\ text[j] = output[1]
                   /\ \E k \in (j + 3)..Len(text) :
                          /\ text[k - 2] = "--- stderr ---" /\ text[k - 1] = LF
                          /\ text[k] = output[2]

C3_LogWrittenBeforeError ==
    /\ editor = "exited" => /\ LogPath(job) \in fs
                            /\ cmd[1] = exe_paths.wsl
                            /\ CommandLineThenOutput(logs_txt)
    /\ (pc = "exited" /\ editor = "exited" /\ exit_code # 0)
           => /\ run.code # 0
              /\ run.raised = "JobError"
              /\ IsInfix(<<"logs.txt">>, run.msg)
              /\ IsInfix(<<ToString(exit_code)>>, run.msg)

C3_EditorExitedTwo ==
    /\ pc = "exited"
    /\ run.stage = "editor"
    /\ exit_code = 2
    /\ LogPath(job) \in fs

\* C4: a run in which any step fails ends with a non-zero exit status; exit
\* status 0 is reached only after the job spec was read and validated, the
\* metadata file written, the editor located and invoked, and the editor
\* exited with code 0.
RequiredConversionFailed ==
    \E i \in 1..Len(calls) : ~calls[i].ok /\ calls[i].args \notin CandidateArgs

WithJobId(d, i) == [d EXCEPT !.job_id = i]
WithBasename(d, o) == [d EXCEPT !.output_basename = o]

C5_JobIdIffPattern ==
    (pc # "call" /\ mode = "functions" /\ validate_job(WithJobId(job_data, Str(<<"a">>))).ok)
    => ( run.raised = ""
         <=> /\ job_data.job_id.type = "str"
             /\ job_data.job_id.val # <<>>
             /\ \A n \in 1..Len(job_data.job_id.val) :
                    job_data.job_id.val[n] \in JOB_ID_CLASS )

\* C6: with the other fields valid, an output_basename containing a path
\* separator of either convention is rejected, no accepted output_basename
\* names a location outside the artifact directory (".." included), and a
\* bare filename is accepted and returned unchanged.
HasSeparator(name) == \E n \in 1..Len(name) : name[n] \in {"/", "\\"}
BareFilename(o) ==
    /\ o.type = "str"
    /\ o.val # <<>>
    /\ ~HasSeparator(o.val)
    /\ o.val \notin {<<".">>, <<".", ".">>}

C6_BasenameStaysInside ==
    (pc # "call" /\ mode = "functions" /\ validate_job(WithBasename(job_data, Str(<<"a">>))).ok)
    => /\ (job_data.output_basename.type = "str" /\ HasSeparator(job_data.output_basename.val))
              => run.stage = "validation"
       /\ run.raised = "" => job_data.output_basename.val # <<".", ".">>
       /\ BareFilename(job_data.output_basename)
              => run.raised = "" /\ job.output_basename = job_data.output_basename.val

\* C7: for every JobSpec the validator returns, dispatch yields the command
\* variant of its task, whose metadata payload holds under "job" exactly that
\* JobSpec (job_id, task, output_basename, params); for a task outside the
\* known set dispatch fails with the unsupported-task error.
VariantOf(task) ==
    IF task = "sprite_placeholder" THEN "SpritePlaceholderCommand"
    ELSE "TilesetPlaceholderCommand"

C7_DispatchKeepsJobSpec ==
    pc = "dispatched" =>
        LET accepted == validate_job(job_data).ok
            given == IF accepted THEN job ELSE RawJob(job_data)
        IN  /\ accepted => /\ run.raised = ""
                           /\ command.class = VariantOf(job.task)
                           /\ meta_json.job.job_id = job_data.job_id.val
                           /\ meta_json.job.task = job_data.task.val
                           /\ meta_json.job.output_basename = job_data.output_basename.val
                           /\ meta_json.job.params =
                                  (IF job_data.params = NoParams THEN EmptyParams
                                   ELSE job_data.params)
                           /\ meta_json.job = job
            /\ given.task \notin SUPPORTED_TASKS
                   => /\ command.class = ""
                      /\ run.stage = "dispatch"
                      /\ run.msg = <<"Unsupported task: ", given.task>>

C7_TilesetDispatched ==
    /\ pc = "dispatched"
    /\ run.raised = ""
    /\ job.task = "tileset_placeholder"
    /\ job.params = SomeParams
    /\ command.class = "TilesetPlaceholderCommand"

\* C8 as stated: whenever any path conversion of a run fails (override,
\* well-known location, output directory, script path), the run is aborted
\* with an error, no editor process has been started and no request was sent
\* to the generation service.  (Read generously: any JobError counts as the
\* configuration error.)
ConversionErrors == {MSG_WSLPATH_NOT_FOUND, MSG_WSLPATH_FAILED}

LocateDone == exe_paths.ok \/ (pc = "exited" /\ run.stage = "locate")

Hit(c) ==
    /\ wslpath_installed
    /\ (<<"-u">> \o c) \notin host.rejects
    /\ (<<"wslpath", "-u">> \o c) \in host.files

\* Override not in force: the well-known locations are probed in their listed
\* order, the first that converts and exists is returned; when none does, the
\* discovery error tells the operator to set the override.
CandidatesInOrder ==
    IF \E k \in 1..Len(candidates) : Hit(candidates[k])
    THEN LET k == CHOOSE n \in 1..Len(candidates) :
                      Hit(candidates[n]) /\ \A m \in 1..(n - 1) : ~Hit(candidates[m])
         IN  /\ exe_paths.ok
             /\ exe_paths.win = candidates[k]
             /\ exe_paths.wsl = <<"wslpath", "-u">> \o candidates[k]
             /\ probed = SubSeq(candidates, 1, k)
    ELSE /\ ~exe_paths.ok
         /\ exe_paths.err = MSG_NOT_FOUND
         /\ IsInfix(<<"ASEPRITE_EXE">>, exe_paths.err)
         /\ probed = candidates

NoFallback ==
    /\ probed = <<>>
    /\ \A i \in 1..Len(calls) : calls[i].args \notin CandidateArgs

\* C9 as stated: whenever the override variable is set, the override alone
\* decides (its pair of paths, or a hard error naming the configured path when
\* its translation or its existence check fails) and no well-known location
\* is probed; otherwise the well-known locations decide, in order.  (Read
\* generously: an empty value counts as unset, and the utility's own stderr
\* text, which is opaque, is taken to name the path.)
C9_SetOverrideDecides ==
    LocateDone =>
        IF env.set /\ env.val # <<>>
        THEN /\ NoFallback
             /\ exe_paths.ok => env.val \in {exe_paths.wsl, exe_paths.win}
             /\ ~exe_paths.ok => \/ IsInfix(env.val, exe_paths.err)
                                 \/ exe_paths.err = MSG_WSLPATH_FAILED
        ELSE CandidatesInOrder

\* C9 amended: the override decides when it is set to a non-empty value (an
\* empty value counts as unset); its hard error names the configured path
\* when the existence check fails and is the conversion layer's error, which
\* need not name the path, when the translation fails.
OverrideConvFails == ~wslpath_installed \/ OverrideArgs \subseteq host.rejects
OverrideMissing == OverrideFiles \cap host.files = {}

C9_NonEmptyOverrideDecides ==
    LocateDone =>
        IF env.set /\ env.val # <<>>
        THEN /\ NoFallback
             /\ exe_paths.ok <=> (~OverrideConvFails /\ ~OverrideMissing)
             /\ exe_paths.ok => /\ env.val \in {exe_paths.wsl, exe_paths.win}
                                /\ exe_paths.wsl \in host.files
                                /\ exe_paths.wsl # exe_paths.win
             /\ ~exe_paths.ok =>
                    \/ /\ exe_paths.err = MSG_OVERRIDE_NOT_FOUND(env.val)
                       /\ IsInfix(env.val, exe_paths.err)
                       /\ OverrideMissing
                    \/ /\ exe_paths.err \in ConversionErrors
                       /\ OverrideConvFails
        ELSE CandidatesInOrder

C9_OverrideFailsDespiteCandidate ==
    /\ pc = "exited"
    /\ run.stage = "locate"
    /\ env.set /\ env.val # <<>>
    /\ Hit(candidates[1])
    /\ probed = <<>>

\* C10: meta.json is written into the job's artifact directory before the
\* editor is located and before it is invoked; a run that fails at discovery,
\* conversion or editor execution leaves the directory and meta.json in
\* place, and leaves no logs.txt when it failed before the editor completed.
C10_MetaBeforeEditor ==
    /\ (exe_paths.ok \/ Len(calls) > 0 \/ editor # "not_started"
            \/ pc \in {"locate", "params", "run", "editor", "check"})
           => /\ ArtifactsOf(job) \in fs
              /\ MetaPath(job) \in fs
              /\ meta_json = meta_payload(command)
              /\ meta_json.job = job
    /\ (pc = "exited" /\ run.stage \in {"locate", "script_params", "script_path", "spawn", "editor"})
           => /\ ArtifactsOf(job) \in fs
              /\ MetaPath(job) \in fs
              /\ run.stage # "editor" => LogPath(job) \notin fs

C10_FailedDiscoveryKeepsMeta ==
    /\ pc = "exited"
    /\ run.stage = "locate"
    /\ MetaPath(job) \in fs
    /\ LogPath(job) \notin fs

====
